---- MODULE Spec2Model ----
(***************************************************************************)
(* Model of piplc.py (the Raspberry Pi mini-PLC control loop) and of the   *)
(* command producer of hmi.py.                                             *)
(*                                                                         *)
(* Time is in milliseconds.  The configuration modelled is                 *)
(*   loop_ms = 100, debounce_obj_ms = 300, pulse_ms = 150,                 *)
(* with every optional output configured and the optional input r_error    *)
(* configured.  Distinct logical outputs are mapped to distinct (stack,ch) *)
(* addresses, so the latch cache is keyed by the output's name.            *)
(***************************************************************************)
EXTENDS Integers, Sequences, FiniteSets, TLC

(* ---------------- configuration (config.yaml read in PiPLC.__init__) ---- *)
loop_ms == 100
debounce_obj == 300
pulse_ms == 150
HB_PERIOD == 500

(* keys of self.out_map, in the order safe_outputs iterates over them *)
OutOrder == <<"start_signal", "continue_signal", "over_signal",
              "count_ok", "r_calib_req", "pi_alive">>
out_map == {OutOrder[i] : i \in 1..Len(OutOrder)}

Modes == {"IDLE", "STARTING", "PICK_IN", "MARKING", "AFTER_MARK", "ERROR"}

(* ---------------- bounds of the model ---------------------------------- *)
T0 == 1000          \* the clock reading when the process is constructed
MaxTime == 1400     \* no iteration of Spec starts at or after this time
MaxFaultTime == 1400 \* the same, for SpecFault
MaxRunTime == 9000  \* the same, for the command-free run of SpecRun
MaxRestartTime == 2000 \* the same, for SpecRestart
MaxRunTarget == 3   \* targets of the runs of SpecRun: 1 .. MaxRunTarget
MaxEdgeTime == 2000 \* no sample of SpecEdge is taken after this time
MaxTarget == 2      \* targets an auto command may carry: 0 .. MaxTarget
MaxCmds == 2        \* command records the operator interface writes
MaxCalls == 4       \* calls of OutputsLatch.set in SpecLatch
MaxReadTime == 1500  \* the same, for SpecRead
MaxStatusTime == 1300 \* the same, for SpecStatus
MaxMailTime == 1300  \* the same, for SpecMailbox
MaxLiveTarget == 3   \* targets of the runs of SpecLive: 1 .. MaxLiveTarget
MaxCmdTime == 1300  \* no iteration of SpecCmd starts at or after this time
TargetDefault == 100 \* target_default of the configuration

VARIABLES
  pc,                \* "init" (constructed), "loop", "dead" (exception), "stopped"
  shutdown,          \* self.shutdown
  batch_size,        \* self.batch_size (configuration)
  mode, total_done, batch_count, target_n, target_set,
  obj_last, obj_last_edge_ms, hb_ms,
  rel_state,         \* OutputsLatch.state : address -> bool (a dict)
  pulse_until,       \* self._pulse_until : name -> ms (a dict)
  state_file,        \* content of runtime_state.json
  count_file,        \* content of pick_counter.json
  cmd_file,          \* content of hmi_cmd.json
  now,               \* the clock, now_ms()
  hmi,               \* the record write_cmd is in the middle of writing
  cmd_seq,           \* number of command records written so far
  applied,           \* history: records applied, applied again, not deleted
  tally,             \* history: pulses of the current run
  last,              \* history: what the most recent loop iteration did
  edges,             \* history: the two most recent accepted edge times
  run,               \* history: the current high run of object_signal
  calls,             \* history: the calls of OutputsLatch.set (SpecLatch)
  tmp_file,          \* content of runtime_state.tmp
  saving,            \* save_state: the dict d it is in the middle of writing
  polled,            \* what state() of hmi.py obtained most recently
  mb                 \* read_cmd: the text it read; history: records overwritten

vars == <<pc, shutdown, batch_size, mode, total_done, batch_count, target_n,
          target_set, obj_last, obj_last_edge_ms, hb_ms, rel_state,
          pulse_until, state_file, count_file, cmd_file, now, hmi,
          cmd_seq, applied, tally, last, edges, run, calls, tmp_file,
          saving, polled, mb>>

(* ---------------- dictionaries ----------------------------------------- *)
EmptyDict == [k \in {} |-> 0]
Put(d, k, v) == [x \in DOMAIN d \cup {k} |-> IF x = k THEN v ELSE d[x]]
Del(d, k) == [x \in DOMAIN d \ {k} |-> d[x]]

(* ---------------- OutputsLatch ----------------------------------------- *)
(* The controller's fields travel through one iteration as a record s.     *)
(* s.exc is set when an exception is raised; nothing after it runs.        *)
(* bad is the set of addresses whose backend write fails (set_relay        *)
(* raises after every CLI variant failed).  s.nw counts physical writes.   *)

OutputsLatch_set_nocache(s, key, val, bad) ==
  IF key \in bad THEN [s EXCEPT !.exc = TRUE, !.nw = @ + 1]
  ELSE [s EXCEPT !.rel = Put(s.rel, key, val), !.nw = @ + 1]

OutputsLatch_set(s, key, val, bad) ==
  IF key \in DOMAIN s.rel /\ s.rel[key] = val THEN s
  ELSE IF key \in bad THEN [s EXCEPT !.exc = TRUE, !.nw = @ + 1]
  ELSE [s EXCEPT !.rel = Put(s.rel, key, val), !.nw = @ + 1]

out(s, name, val, bad) ==
  IF s.exc \/ name \notin out_map THEN s
  ELSE OutputsLatch_set(s, name, val, bad)

(* ---------------- pulse scheduler -------------------------------------- *)
pulse_noentry(s, name, d, t, bad) ==
  IF s.exc \/ name \notin out_map THEN s
  ELSE LET s1 == out(s, name, TRUE, bad)
       IN IF s1.exc THEN s1 ELSE [s1 EXCEPT !.fired = @ \cup {name}]

pulse(s, name, d, t, bad) ==
  IF s.exc \/ name \notin out_map THEN s
  ELSE LET s1 == out(s, name, TRUE, bad)
       IN IF s1.exc THEN s1
          ELSE [s1 EXCEPT !.pu = Put(s1.pu, name, t + d),
                          !.fired = @ \cup {name}]

RECURSIVE service_from(_, _, _, _, _)
service_from(s, due, i, t, bad) ==
  IF i > Len(OutOrder) \/ s.exc THEN s
  ELSE LET k == OutOrder[i]
       IN IF k \in due
          THEN LET s1 == out(s, k, FALSE, bad)
               IN service_from(IF s1.exc THEN s1
                               ELSE [s1 EXCEPT !.pu = Del(s1.pu, k)],
                               due, i + 1, t, bad)
          ELSE service_from(s, due, i + 1, t, bad)

service_due_all(s, t) == DOMAIN s.pu

service_due(s, t) == {k \in DOMAIN s.pu : t >= s.pu[k]}

service_pulses(s, t, bad) ==
  IF s.exc THEN s ELSE service_from(s, service_due(s, t), 1, t, bad)

RECURSIVE low_from(_, _, _)
low_from(s, i, bad) ==
  IF i > Len(OutOrder) \/ s.exc THEN s
  ELSE low_from(out(s, OutOrder[i], FALSE, bad), i + 1, bad)

safe_outputs(s, bad) ==
  IF s.exc THEN s
  ELSE LET s1 == low_from(s, 1, bad)
       IN IF s1.exc THEN s1
          ELSE [s1 EXCEPT !.pu = EmptyDict, !.safed = TRUE]

(* ---------------- status and counter files ------------------------------ *)
(* save_state writes a temporary file and renames it over STATE_FILE, so   *)
(* the file changes in one step.  The ts field is left out.                *)
save_runtime(s, err) ==
  IF s.exc THEN s
  ELSE [s EXCEPT !.status = [mode |-> s.mode, total_done |-> s.total_done,
                             batch_count |-> s.batch_count,
                             target_n |-> s.target_n, error |-> err],
                 !.saved = TRUE]

(* The steps of save_state on the pair f = [tmp, status] of files: write_text *)
(* opens and truncates the temporary file and writes into it, os.replace     *)
(* renames it over STATE_FILE.  A file is absent (NoStatus), holds a prefix  *)
(* of a document (PartStatus) or a whole record.                             *)
NoStatus == [mode |-> "", total_done |-> 0, batch_count |-> 0, target_n |-> 0,
             error |-> "absent"]
PartStatus == [mode |-> "", total_done |-> 0, batch_count |-> 0,
               target_n |-> 0, error |-> "partial"]

save_state_inplace(f) == [f EXCEPT !.status = PartStatus]

save_state_open(f) == [f EXCEPT !.tmp = PartStatus]

save_state_write(f, d) == [f EXCEPT !.tmp = d]

save_state_replace(f) == [tmp |-> NoStatus, status |-> f.tmp]

(* state() of hmi.py: the defaults, updated with the parsed file *)
StateDefaults == [mode |-> "IDLE", total_done |-> 0, batch_count |-> 0,
                  target_n |-> 0, error |-> ""]

state_read(f) ==
  IF f = NoStatus THEN [kind |-> "default", rec |-> StateDefaults]
  ELSE IF f = PartStatus
  THEN [kind |-> "partial",
        rec |-> [StateDefaults EXCEPT !.error = "state read error"]]
  ELSE [kind |-> "record", rec |-> f]

save_count(s, c) == IF s.exc THEN s ELSE [s EXCEPT !.count = c]

(* ---------------- edge detector ----------------------------------------- *)
edge_hit_nodebounce(s, val, t) == val = 1 /\ s.obj_last = 0

edge_hit(s, val, t) ==
  val = 1 /\ s.obj_last = 0 /\ (t - s.obj_last_edge_ms) >= debounce_obj

edge_obj(s, val, t) ==
  IF edge_hit(s, val, t)
  THEN [s EXCEPT !.obj_last_edge_ms = t, !.obj_last = val, !.edge = TRUE]
  ELSE [s EXCEPT !.obj_last = val, !.edge = FALSE]

(* ---------------- command file ------------------------------------------ *)
(* A file is absent (kind "none"), unparsable (kind "bad": truncated or    *)
(* garbage) or holds a command record (kind "cmd").  target is tagged:     *)
(* an integer, a string int() cannot parse, or a missing key.              *)
NoFile == [kind |-> "none"]
BadFile == [kind |-> "bad"]
NoCmd == [kind |-> "none"]

IntT(n) == [k |-> "int", v |-> n]
StrT == [k |-> "str", v |-> 0]
MissingT == [k |-> "missing", v |-> 0]

Cmd(r, c, a, tg) ==
  [kind |-> "cmd", reset |-> r, calib |-> c, auto |-> a, target |-> tg, ts |-> 0]

(* read_cmd: d is what it returns, file what it leaves behind *)
read_cmd_keep(file, delfail) ==
  IF file.kind = "cmd" THEN [d |-> file, file |-> file]
  ELSE [d |-> NoCmd, file |-> file]

read_cmd(file, delfail) ==
  IF file.kind = "cmd"
  THEN [d |-> file, file |-> IF delfail THEN file ELSE NoFile]
  ELSE [d |-> NoCmd, file |-> file]

(* ---------------- handle_cmd -------------------------------------------- *)
cmd_reset_nosafe(s, cmd, bad) ==
  IF s.exc \/ ~cmd.reset THEN s
  ELSE [s EXCEPT !.mode = "IDLE", !.total_done = 0, !.batch_count = 0,
                 !.target_set = FALSE]

cmd_reset_keepmode(s, cmd, bad) ==
  IF s.exc \/ ~cmd.reset THEN s
  ELSE safe_outputs([s EXCEPT !.total_done = 0, !.batch_count = 0,
                              !.target_set = FALSE], bad)

cmd_reset(s, cmd, bad) ==
  IF s.exc \/ ~cmd.reset THEN s
  ELSE safe_outputs([s EXCEPT !.mode = "IDLE", !.total_done = 0,
                              !.batch_count = 0, !.target_set = FALSE], bad)

cmd_calib(s, cmd, t, bad) ==
  IF s.exc \/ ~cmd.calib THEN s
  ELSE LET s1 == pulse(s, "r_calib_req", pulse_ms, t, bad)
       IN IF s1.exc THEN s1 ELSE [s1 EXCEPT !.mode = "IDLE"]

(* int(cmd.get("target",0) or 0) *)
cmd_target(cmd) == IF cmd.target.k = "int" THEN cmd.target.v ELSE 0

cmd_auto(s, cmd) ==
  IF s.exc \/ ~cmd.auto THEN s
  ELSE IF cmd.target.k = "str" THEN [s EXCEPT !.exc = TRUE]
  ELSE IF cmd_target(cmd) > 0
       THEN [s EXCEPT !.target_n = cmd_target(cmd), !.total_done = 0,
                      !.batch_count = 0, !.target_set = TRUE,
                      !.mode = "STARTING"]
       ELSE s

handle_cmd_autofirst(s, cmd, t, bad) ==
  IF s.exc \/ cmd.kind # "cmd" THEN s
  ELSE cmd_reset(cmd_calib(cmd_auto(s, cmd), cmd, t, bad), cmd, bad)

handle_cmd(s, cmd, t, bad) ==
  IF s.exc \/ cmd.kind # "cmd" THEN s
  ELSE cmd_auto(cmd_calib(cmd_reset(s, cmd, bad), cmd, t, bad), cmd)

(* ---------------- the state machine of PiPLC.loop ----------------------- *)
(* inp = [btn, obj, ready, next, err : 0..1, rfail : BOOLEAN] are the      *)
(* values read in this iteration; rfail says that a read raised.           *)
set_mode(s, m) == IF s.exc THEN s ELSE [s EXCEPT !.mode = m]

sm_idle(s, inp) ==
  save_runtime([s EXCEPT !.batch_count = 0,
                         !.mode = IF s.target_set /\ inp.btn = 1
                                  THEN "STARTING" ELSE @], "")

sm_starting(s, t, bad) ==
  LET s1 == pulse(s, "start_signal", pulse_ms, t, bad)
  IN save_runtime(IF s1.exc THEN s1
                  ELSE [s1 EXCEPT !.batch_count = 0, !.mode = "PICK_IN"], "")

count_edge(s, inp, t) ==
  LET s1 == edge_obj(s, inp.obj, t)
  IN IF s1.edge
     THEN save_count([s1 EXCEPT !.batch_count = @ + 1, !.total_done = @ + 1],
                     s1.total_done + 1)
     ELSE s1

sm_pick_in_nobatch(s, inp, t, bad, bsize) ==
  LET s2 == count_edge(s, inp, t)
  IN IF s2.total_done >= s2.target_n
     THEN save_runtime(set_mode(pulse(s2, "count_ok", pulse_ms, t, bad),
                                "IDLE"), "")
     ELSE IF s2.batch_count >= bsize
     THEN save_runtime(set_mode(pulse(s2, "over_signal", pulse_ms, t, bad),
                                "MARKING"), "")
     ELSE save_runtime(IF inp.ready = 1
                       THEN pulse(s2, "continue_signal", pulse_ms, t, bad)
                       ELSE s2, "")

sm_pick_in_contfirst(s, inp, t, bad, bsize) ==
  LET s1 == count_edge(s, inp, t)
      s2 == IF inp.ready = 1
            THEN pulse(s1, "continue_signal", pulse_ms, t, bad) ELSE s1
  IN IF s2.total_done >= s2.target_n
     THEN IF s2.batch_count = 0
          THEN save_runtime(set_mode(pulse(s2, "count_ok", pulse_ms, t, bad),
                                     "IDLE"), "")
          ELSE save_runtime(set_mode(pulse(s2, "over_signal", pulse_ms, t, bad),
                                     "MARKING"), "")
     ELSE IF s2.batch_count >= bsize
     THEN save_runtime(set_mode(pulse(s2, "over_signal", pulse_ms, t, bad),
                                "MARKING"), "")
     ELSE save_runtime(s2, "")

sm_pick_in(s, inp, t, bad, bsize) ==
  LET s2 == count_edge(s, inp, t)
  IN IF s2.total_done >= s2.target_n
     THEN IF s2.batch_count = 0
          THEN save_runtime(set_mode(pulse(s2, "count_ok", pulse_ms, t, bad),
                                     "IDLE"), "")
          ELSE save_runtime(set_mode(pulse(s2, "over_signal", pulse_ms, t, bad),
                                     "MARKING"), "")
     ELSE IF s2.batch_count >= bsize
     THEN save_runtime(set_mode(pulse(s2, "over_signal", pulse_ms, t, bad),
                                "MARKING"), "")
     ELSE save_runtime(IF inp.ready = 1
                       THEN pulse(s2, "continue_signal", pulse_ms, t, bad)
                       ELSE s2, "")

sm_marking_stay(s) == save_runtime(s, "")

sm_marking(s) == save_runtime([s EXCEPT !.mode = "AFTER_MARK"], "")

sm_after_mark(s, inp, t, bad) ==
  IF inp.next = 1
  THEN IF s.total_done >= s.target_n
       THEN LET s1 == pulse(s, "count_ok", pulse_ms, t, bad)
            IN save_runtime(IF s1.exc THEN s1
                            ELSE [s1 EXCEPT !.mode = "IDLE",
                                            !.batch_count = 0], "")
       ELSE save_runtime([s EXCEPT !.batch_count = 0, !.mode = "PICK_IN"], "")
  ELSE s

sm_error(s) == save_runtime(s, "ERROR state")

state_machine(s, inp, t, bad, bsize) ==
  CASE s.mode = "IDLE" -> sm_idle(s, inp)
    [] s.mode = "STARTING" -> sm_starting(s, t, bad)
    [] s.mode = "PICK_IN" -> sm_pick_in(s, inp, t, bad, bsize)
    [] s.mode = "MARKING" -> sm_marking(s)
    [] s.mode = "AFTER_MARK" -> sm_after_mark(s, inp, t, bad)
    [] s.mode = "ERROR" -> sm_error(s)

robot_error_nosafe(s, bad) ==
  save_runtime(set_mode(s, "ERROR"), "Robot error")

robot_error(s, bad) ==
  save_runtime(set_mode(safe_outputs(s, bad), "ERROR"), "Robot error")

heartbeat(s, t, bad) ==
  IF s.exc \/ "pi_alive" \notin out_map \/ ~(t - s.hb_ms > HB_PERIOD) THEN s
  ELSE LET cur == IF "pi_alive" \in DOMAIN s.rel THEN s.rel["pi_alive"]
                  ELSE FALSE
       IN OutputsLatch_set([s EXCEPT !.hb_ms = t], "pi_alive", ~cur, bad)

(* One iteration of the while loop: heartbeat and pulse service at t0, the *)
(* command, then the reads; what follows the reads happens at t1.  The     *)
(* iterations of Tick take no time (t1 = t0) and sleep exactly loop_ms.    *)
evaluate(s, inp, t, bad, bsize) ==
  IF s.exc THEN s
  ELSE IF inp.rfail THEN save_runtime(s, "IO read error")
  ELSE IF inp.err = 1 THEN robot_error(s, bad)
  ELSE state_machine(s, inp, t, bad, bsize)

iteration(s, cmd, inp, t0, t1, bad, bsize) ==
  evaluate(handle_cmd(service_pulses(heartbeat(s, t0, bad), t0, bad),
                      cmd, t0, bad),
           inp, t1, bad, bsize)

(* ---------------- the controller as a record, and back ------------------ *)
Cur ==
  [mode |-> mode, total_done |-> total_done, batch_count |-> batch_count,
   target_n |-> target_n, target_set |-> target_set, obj_last |-> obj_last,
   obj_last_edge_ms |-> obj_last_edge_ms, hb_ms |-> hb_ms, rel |-> rel_state,
   pu |-> pulse_until, status |-> state_file, count |-> count_file,
   exc |-> FALSE, nw |-> 0, fired |-> {}, safed |-> FALSE, saved |-> FALSE,
   edge |-> FALSE]

CommitFields(r) ==
  /\ mode' = r.mode
  /\ total_done' = r.total_done
  /\ batch_count' = r.batch_count
  /\ target_n' = r.target_n
  /\ target_set' = r.target_set
  /\ obj_last' = r.obj_last
  /\ obj_last_edge_ms' = r.obj_last_edge_ms
  /\ hb_ms' = r.hb_ms
  /\ rel_state' = r.rel
  /\ pulse_until' = r.pu
  /\ count_file' = r.count

Commit(r) == CommitFields(r) /\ state_file' = r.status

(* ---------------- inputs of the model ----------------------------------- *)
Bit == {0, 1}
ZeroIn == [btn |-> 0, obj |-> 0, ready |-> 0, next |-> 0, err |-> 0,
           rfail |-> FALSE]
(* Each branch of the state machine looks at one group of inputs: btn    *)
(* (IDLE), obj and ready (PICK_IN), next (AFTER_MARK); err pre-empts them *)
(* all and a failed read hides them all.  The environment asserts one     *)
(* group at a time, which leaves every transition of the controller.      *)
RunInputs ==
  {[ZeroIn EXCEPT !.obj = o, !.ready = r] : o, r \in Bit}
    \cup {[ZeroIn EXCEPT !.next = 1]}
Inputs ==
  RunInputs \cup {[ZeroIn EXCEPT !.btn = 1], [ZeroIn EXCEPT !.err = 1],
                  [ZeroIn EXCEPT !.rfail = TRUE]}
(* the backend answers every write of an iteration, or none *)
BadSets == {{}, out_map}
(* values of batch_size the configuration gives in Spec *)
BatchSizes == {1, 2}

(* the records home() of hmi.py builds: one flag each *)
Commands ==
  {Cmd(TRUE, FALSE, FALSE, IntT(0)), Cmd(FALSE, TRUE, FALSE, IntT(0))}
    \cup {Cmd(FALSE, FALSE, TRUE, IntT(n)) : n \in 0..MaxTarget}

Pre == [mode |-> mode, batch_count |-> batch_count,
        pend |-> DOMAIN pulse_until]
NoPre == [mode |-> "IDLE", batch_count |-> 0, pend |-> {}]
NoLast == [kind |-> "none", t0 |-> 0, pre |-> NoPre, cmd |-> NoCmd, err |-> 0,
           rfail |-> FALSE, delfail |-> FALSE, fired |-> {}, safed |-> FALSE, saved |-> FALSE,
           edge |-> FALSE, done |-> FALSE]
NoTally == [overAt |-> {}, ok |-> 0]
NoEdges == [n |-> 0, prev |-> 0, last |-> 0]
NoRun == [high |-> FALSE, rise |-> 0, counted |-> 0]
NoPoll == [kind |-> "none", rec |-> NoStatus, at |-> ""]
NoMb == [d |-> NoCmd, over |-> {}]
NoCalls == [n |-> 0, key |-> "", val |-> FALSE, wrote |-> 0, raised |-> FALSE,
            held |-> FALSE, kept |-> TRUE, same |-> FALSE, pwrote |-> 0,
            praised |-> FALSE, pheld |-> FALSE]

(* ---------------- Init: the state PiPLC.__init__ leaves ------------------ *)
Init ==
  /\ pc = "init"
  /\ shutdown = FALSE
  /\ batch_size \in BatchSizes
  /\ mode = "IDLE"
  /\ total_done = 0
  /\ batch_count = 0
  /\ target_n = TargetDefault
  /\ target_set = FALSE
  /\ obj_last = 0
  /\ obj_last_edge_ms = 0
  /\ hb_ms = 0
  /\ rel_state = EmptyDict
  /\ pulse_until = EmptyDict
  /\ state_file = NoStatus
  /\ count_file = 0
  /\ cmd_file = NoFile
  /\ now = T0
  /\ hmi = NoCmd
  /\ cmd_seq = 0
  /\ applied = [once |-> {}, again |-> {}, kept |-> {}]
  /\ tally = NoTally
  /\ last = NoLast
  /\ edges = NoEdges
  /\ run = NoRun
  /\ calls = NoCalls
  /\ tmp_file = NoStatus
  /\ saving = NoStatus
  /\ polled = NoPoll
  /\ mb = NoMb

(* ---------------- PiPLC.loop: the two lines before the while loop -------- *)
LoopStart(bad) ==
  /\ pc = "init"
  /\ \E r \in {save_runtime(safe_outputs(Cur, bad), "")} :
        /\ Commit(r)
        /\ pc' = IF r.exc THEN "dead" ELSE "loop"
        /\ last' = [NoLast EXCEPT !.kind = "start", !.t0 = now,
                                  !.safed = r.safed, !.saved = r.saved,
                                  !.done = ~r.exc]
  /\ UNCHANGED <<shutdown, batch_size, cmd_file, now, hmi, cmd_seq, applied,
                 tally, edges, run, calls,
                 tmp_file, saving, polled, mb>>

(* ---------------- one iteration of the while loop ------------------------ *)
NewTally(r, cmd) ==
  LET base == IF cmd.kind = "cmd" /\ (cmd.reset \/ (cmd.auto /\ cmd_target(cmd) > 0))
              THEN NoTally ELSE tally
  IN [overAt |-> IF "over_signal" \in r.fired
                 THEN base.overAt \cup {r.total_done} ELSE base.overAt,
      ok |-> IF "count_ok" \in r.fired THEN base.ok + 1 ELSE base.ok]

NewApplied(cmd, delfail) ==
  IF cmd.kind # "cmd" THEN applied
  ELSE [once |-> applied.once \cup {cmd.ts},
        again |-> IF cmd.ts \in applied.once
                  THEN applied.again \cup {cmd.ts} ELSE applied.again,
        kept |-> IF delfail THEN applied.kept \cup {cmd.ts} ELSE applied.kept]

Tick(inp, bad, delfail, cap) ==
  /\ pc = "loop"
  /\ ~shutdown
  /\ now < cap
  /\ delfail => cmd_file.kind = "cmd"
  /\ \E t0 \in {now}, t1 \in {now}, rc \in {read_cmd(cmd_file, delfail)} :
     \E r \in {iteration(Cur, rc.d, inp, t0, t1, bad, batch_size)} :
        /\ Commit(r)
        /\ pc' = IF r.exc THEN "dead" ELSE "loop"
        /\ cmd_file' = rc.file
        /\ now' = t1 + loop_ms
        /\ applied' = NewApplied(rc.d, delfail)
        /\ tally' = NewTally(r, rc.d)
        /\ last' = [kind |-> "tick", t0 |-> t0, pre |-> Pre, cmd |-> rc.d,
                    err |-> inp.err, rfail |-> inp.rfail, delfail |-> delfail, fired |-> r.fired, safed |-> r.safed,
                    saved |-> r.saved, edge |-> r.edge, done |-> ~r.exc]
  /\ UNCHANGED <<shutdown, batch_size, hmi, cmd_seq, edges, run, calls,
                 tmp_file, saving, polled, mb>>

(* the signal handler of main, and the loop seeing the flag *)
Shutdown ==
  /\ pc \in {"init", "loop"}
  /\ ~shutdown
  /\ shutdown' = TRUE
  /\ UNCHANGED <<pc, batch_size, mode, total_done, batch_count, target_n,
                 target_set, obj_last, obj_last_edge_ms, hb_ms, rel_state,
                 pulse_until, state_file, count_file, cmd_file, now, hmi,
                 cmd_seq, applied, tally, last, edges, run, calls,
                 tmp_file, saving, polled, mb>>

LoopExit ==
  /\ pc = "loop"
  /\ shutdown
  /\ pc' = "stopped"
  /\ UNCHANGED <<shutdown, batch_size, mode, total_done, batch_count,
                 target_n, target_set, obj_last, obj_last_edge_ms, hb_ms,
                 rel_state, pulse_until, state_file, count_file, cmd_file,
                 now, hmi, cmd_seq, applied, tally, last, edges, run, calls,
                 tmp_file, saving, polled, mb>>

(* ---------------- hmi.py write_cmd --------------------------------------- *)
(* open(CMD_FILE, "w") truncates the file; json.dump then writes the record *)
(* into the file it opened: if os.remove unlinked that file in between, the *)
(* path stays absent.  mb.over collects the records a later open truncated. *)
HmiOpen(c) ==
  /\ hmi.kind = "none"
  /\ cmd_seq < MaxCmds
  /\ hmi' = [c EXCEPT !.ts = cmd_seq + 1]
  /\ cmd_seq' = cmd_seq + 1
  /\ cmd_file' = BadFile
  /\ mb' = [mb EXCEPT !.over = IF cmd_file.kind = "cmd"
                                THEN @ \cup {cmd_file.ts} ELSE @]
  /\ UNCHANGED <<pc, shutdown, batch_size, mode, total_done, batch_count,
                 target_n, target_set, obj_last, obj_last_edge_ms, hb_ms,
                 rel_state, pulse_until, state_file, count_file, now,
                 applied, tally, last, edges, run, calls,
                 tmp_file, saving, polled>>

HmiDump ==
  /\ hmi.kind = "cmd"
  /\ cmd_file' = IF cmd_file.kind = "none" THEN NoFile ELSE hmi
  /\ hmi' = NoCmd
  /\ UNCHANGED <<pc, shutdown, batch_size, mode, total_done, batch_count,
                 target_n, target_set, obj_last, obj_last_edge_ms, hb_ms,
                 rel_state, pulse_until, state_file, count_file, now, cmd_seq,
                 applied, tally, last, edges, run, calls,
                 tmp_file, saving, polled, mb>>

(* ---------------- Spec: the controller and the operator interface, with  *)
(* a backend that answers every write ------------------------------------ *)
Start == LoopStart({})
Step == \E inp \in Inputs, delfail \in BOOLEAN : Tick(inp, {}, delfail, MaxTime)
Write == \E c \in Commands : HmiOpen(c)

Next == Start \/ Step \/ Write \/ HmiDump

Spec == Init /\ [][Next]_vars

(* ---------------- SpecFault: the same with failing writes and shutdown --- *)
StartF == \E bad \in BadSets : LoopStart(bad)
StepF ==
  \E inp \in Inputs, bad \in BadSets, delfail \in BOOLEAN :
    Tick(inp, bad, delfail, MaxFaultTime)

NextFault == StartF \/ StepF \/ Write \/ HmiDump \/ Shutdown \/ LoopExit

SpecFault == Init /\ [][NextFault]_vars

(* ---------------- SpecRun: one armed run, no command, no fault ----------- *)
(* The state is the one Spec reaches by Start, Write and HmiDump with an   *)
(* auto command of target n: the loop has started and the record waits in  *)
(* the command file.  The start button stays released.                     *)
AllLow == [k \in out_map |-> FALSE]

InitArmed(n, b) ==
  /\ pc = "loop"
  /\ shutdown = FALSE
  /\ batch_size = b
  /\ mode = "IDLE"
  /\ total_done = 0
  /\ batch_count = 0
  /\ target_n = TargetDefault
  /\ target_set = FALSE
  /\ obj_last = 0
  /\ obj_last_edge_ms = 0
  /\ hb_ms = 0
  /\ rel_state = AllLow
  /\ pulse_until = EmptyDict
  /\ state_file = [mode |-> "IDLE", total_done |-> 0, batch_count |-> 0,
                   target_n |-> TargetDefault, error |-> ""]
  /\ count_file = 0
  /\ cmd_file = [Cmd(FALSE, FALSE, TRUE, IntT(n)) EXCEPT !.ts = 1]
  /\ now = T0
  /\ hmi = NoCmd
  /\ cmd_seq = 1
  /\ applied = [once |-> {}, again |-> {}, kept |-> {}]
  /\ tally = NoTally
  /\ last = [NoLast EXCEPT !.kind = "start", !.t0 = T0, !.safed = TRUE,
                           !.saved = TRUE, !.done = TRUE]
  /\ edges = NoEdges
  /\ run = NoRun
  /\ calls = NoCalls
  /\ tmp_file = NoStatus
  /\ saving = NoStatus
  /\ polled = NoPoll
  /\ mb = NoMb

RunConfigs ==
  {<<25, 10>>} \cup {<<n, b>> : n \in 1..MaxRunTarget, b \in BatchSizes}

InitRun == \E c \in RunConfigs : InitArmed(c[1], c[2])

RunStep == \E inp \in RunInputs : Tick(inp, {}, FALSE, MaxRunTime)

SpecRun == InitRun /\ [][RunStep]_vars

(* ---------------- SpecRestart: the same, with the start button ----------- *)
InitRestart == \E n \in 1..MaxTarget, b \in BatchSizes : InitArmed(n, b)

RestartStep ==
  \E inp \in RunInputs \cup {[ZeroIn EXCEPT !.btn = 1]} :
    Tick(inp, {}, FALSE, MaxRestartTime)

SpecRestart == InitRestart /\ [][RestartStep]_vars

(* ---------------- SpecEdge: edge_obj on every sequence of samples -------- *)
(* edge_obj is called on the constructed object with a sample val taken dt *)
(* after the previous one.  edges keeps the times of the two most recent   *)
(* accepted edges; run follows the current run of 1-samples: the time of   *)
(* its rising sample and the edges accepted during it.                     *)
SampleDts == {50, 100, 400}

EdgeSample(val, dt) ==
  /\ pc = "init"
  /\ now + dt <= MaxEdgeTime
  /\ \E t \in {now + dt} : \E r \in {edge_obj(Cur, val, t)} :
       /\ obj_last' = r.obj_last
       /\ obj_last_edge_ms' = r.obj_last_edge_ms
       /\ now' = t
       /\ edges' = IF r.edge
                   THEN [n |-> edges.n + 1, prev |-> edges.last, last |-> t]
                   ELSE edges
       /\ run' = IF val = 0 THEN NoRun
                 ELSE IF run.high
                 THEN [run EXCEPT !.counted = @ + (IF r.edge THEN 1 ELSE 0)]
                 ELSE [high |-> TRUE, rise |-> t,
                       counted |-> IF r.edge THEN 1 ELSE 0]
  /\ UNCHANGED <<pc, shutdown, batch_size, mode, total_done, batch_count,
                 target_n, target_set, hb_ms, rel_state, pulse_until,
                 state_file, count_file, cmd_file, hmi, cmd_seq, applied,
                 tally, last, calls,
                 tmp_file, saving, polled, mb>>

EdgeNext == \E val \in Bit, dt \in SampleDts : EdgeSample(val, dt)

SpecEdge == Init /\ [][EdgeNext]_vars

(* ---------------- SpecLatch: OutputsLatch.set on every sequence of calls - *)
(* calls describes the most recent call (its arguments, the physical       *)
(* writes it issued, whether it raised, whether the cache held val before  *)
(* it and whether it left the cache as it was) and the call before it.     *)
LatchKeys == {"over_signal", "count_ok"}

LatchCall(key, val, fail) ==
  /\ pc = "init"
  /\ calls.n < MaxCalls
  /\ \E r \in {OutputsLatch_set(Cur, key, val, IF fail THEN {key} ELSE {})} :
       /\ rel_state' = r.rel
       /\ calls' = [n |-> calls.n + 1, key |-> key, val |-> val,
                    wrote |-> r.nw, raised |-> r.exc,
                    held |-> key \in DOMAIN rel_state /\ rel_state[key] = val,
                    kept |-> r.rel = rel_state,
                    same |-> calls.n >= 1 /\ calls.key = key /\ calls.val = val,
                    pwrote |-> calls.wrote, praised |-> calls.raised,
                    pheld |-> calls.held]
  /\ UNCHANGED <<pc, shutdown, batch_size, mode, total_done, batch_count,
                 target_n, target_set, obj_last, obj_last_edge_ms, hb_ms,
                 pulse_until, state_file, count_file, cmd_file, now, hmi,
                 cmd_seq, applied, tally, last, edges, run,
                 tmp_file, saving, polled, mb>>

LatchNext ==
  \E key \in LatchKeys, val \in BOOLEAN, fail \in BOOLEAN :
    LatchCall(key, val, fail)

SpecLatch == Init /\ [][LatchNext]_vars

(* ---------------- SpecCmd: every record the command file may hold -------- *)
(* The command file is an interface of the controller: handle_cmd reads    *)
(* the three flags of whatever record it finds, and the target may be an   *)
(* integer of either sign, a string int() rejects, or missing.             *)
FlagSets == {<<r, c>> : r, c \in BOOLEAN}
Targets == {IntT(n) : n \in -1..1} \cup {StrT, MissingT}
AnyCommands ==
  {Cmd(f[1], f[2], FALSE, IntT(0)) : f \in FlagSets}
    \cup {Cmd(f[1], f[2], TRUE, tg) : f \in FlagSets, tg \in Targets}

CmdInputs ==
  {ZeroIn, [ZeroIn EXCEPT !.obj = 1], [ZeroIn EXCEPT !.next = 1],
   [ZeroIn EXCEPT !.btn = 1], [ZeroIn EXCEPT !.err = 1],
   [ZeroIn EXCEPT !.rfail = TRUE]}

CmdStep == \E inp \in CmdInputs : Tick(inp, {}, FALSE, MaxCmdTime)
CmdWrite == \E c \in AnyCommands : HmiOpen(c)

CmdNext == Start \/ CmdStep \/ CmdWrite \/ HmiDump

SpecCmd == Init /\ [][CmdNext]_vars

(* ---------------- SpecRead: an armed run whose reads may fail ------------- *)
ReadStep ==
  \E inp \in RunInputs \cup {[ZeroIn EXCEPT !.rfail = TRUE]} :
    Tick(inp, {}, FALSE, MaxReadTime)

SpecRead == InitRestart /\ [][ReadStep]_vars

(* ---------------- SpecStatus: save_state step by step, and a reader ------ *)
(* The iteration runs up to its call of save_runtime; pc then follows      *)
(* save_state through "save_open", "save_write" and "save_replace".        *)
(* state() of hmi.py may read STATE_FILE between any two steps.            *)
SaveBegin(r) ==
  /\ CommitFields(r)
  /\ saving' = IF r.saved THEN r.status ELSE saving
  /\ pc' = IF r.exc THEN "dead" ELSE IF r.saved THEN "save_open" ELSE "loop"

StatusStart ==
  /\ pc = "init"
  /\ \E r \in {save_runtime(safe_outputs(Cur, {}), "")} :
        /\ SaveBegin(r)
        /\ last' = [NoLast EXCEPT !.kind = "start", !.t0 = now,
                                  !.safed = r.safed, !.saved = r.saved,
                                  !.done = ~r.exc]
  /\ UNCHANGED <<shutdown, batch_size, state_file, cmd_file, now, hmi,
                 cmd_seq, applied, tally, edges, run, calls, tmp_file,
                 polled, mb>>

StatusTick(inp) ==
  /\ pc = "loop"
  /\ ~shutdown
  /\ now < MaxStatusTime
  /\ \E rc \in {read_cmd(cmd_file, FALSE)} :
     \E r \in {iteration(Cur, rc.d, inp, now, now, {}, batch_size)} :
        /\ SaveBegin(r)
        /\ cmd_file' = rc.file
        /\ now' = now + loop_ms
        /\ applied' = NewApplied(rc.d, FALSE)
        /\ tally' = NewTally(r, rc.d)
        /\ last' = [kind |-> "tick", t0 |-> now, pre |-> Pre, cmd |-> rc.d,
                    err |-> inp.err, rfail |-> inp.rfail, delfail |-> FALSE,
                    fired |-> r.fired, safed |-> r.safed, saved |-> r.saved,
                    edge |-> r.edge, done |-> ~r.exc]
  /\ UNCHANGED <<shutdown, batch_size, state_file, hmi, cmd_seq, edges, run,
                 calls, tmp_file, polled, mb>>

SaveStep(at, f, to) ==
  /\ pc = at
  /\ tmp_file' = f.tmp
  /\ state_file' = f.status
  /\ pc' = to
  /\ UNCHANGED <<shutdown, batch_size, mode, total_done, batch_count,
                 target_n, target_set, obj_last, obj_last_edge_ms, hb_ms,
                 rel_state, pulse_until, count_file, cmd_file, now, hmi,
                 cmd_seq, applied, tally, last, edges, run, calls, saving,
                 polled, mb>>

StatusFiles == [tmp |-> tmp_file, status |-> state_file]
SaveOpen == SaveStep("save_open", save_state_open(StatusFiles), "save_write")
SaveWrite ==
  SaveStep("save_write", save_state_write(StatusFiles, saving), "save_replace")
SaveReplace == SaveStep("save_replace", save_state_replace(StatusFiles), "loop")

StatePoll ==
  /\ \E x \in {state_read(state_file)} :
       polled' = [kind |-> x.kind, rec |-> x.rec, at |-> pc]
  /\ UNCHANGED <<pc, shutdown, batch_size, mode, total_done, batch_count,
                 target_n, target_set, obj_last, obj_last_edge_ms, hb_ms,
                 rel_state, pulse_until, state_file, count_file, cmd_file,
                 now, hmi, cmd_seq, applied, tally, last, edges, run, calls,
                 tmp_file, saving, mb>>

StatusStep ==
  \E inp \in {ZeroIn, [ZeroIn EXCEPT !.obj = 1], [ZeroIn EXCEPT !.next = 1],
              [ZeroIn EXCEPT !.err = 1]} : StatusTick(inp)

StatusNext ==
  StatusStart \/ StatusStep \/ SaveOpen \/ SaveWrite \/ SaveReplace
    \/ StatePoll \/ Write \/ HmiDump

SpecStatus == Init /\ [][StatusNext]_vars

(* ---------------- SpecMailbox: read_cmd step by step --------------------- *)
(* MbRead is the iteration up to and including CMD_FILE.read_text(): the   *)
(* heartbeat, the pulse service and the read; mb.d is the record parsed    *)
(* from the text (none if the file is absent or does not parse, and then   *)
(* os.remove is not reached).  MbRest is os.remove, which unlinks whatever *)
(* the path names by then, and the rest of the iteration.  write_cmd may   *)
(* run between the two.                                                    *)
MbRead ==
  /\ pc = "loop"
  /\ ~shutdown
  /\ now < MaxMailTime
  /\ \E r \in {service_pulses(heartbeat(Cur, now, {}), now, {})} :
        Commit(r)
  /\ mb' = [mb EXCEPT !.d = read_cmd(cmd_file, TRUE).d]
  /\ pc' = "read"
  /\ UNCHANGED <<shutdown, batch_size, cmd_file, now, hmi, cmd_seq, applied,
                 tally, last, edges, run, calls, tmp_file, saving, polled>>

MbRest(inp) ==
  /\ pc = "read"
  /\ cmd_file' = IF mb.d.kind = "cmd" THEN NoFile ELSE cmd_file
  /\ \E r \in {evaluate(handle_cmd(Cur, mb.d, now, {}), inp, now, {},
                         batch_size)} :
        /\ Commit(r)
        /\ pc' = IF r.exc THEN "dead" ELSE "loop"
        /\ tally' = NewTally(r, mb.d)
        /\ last' = [kind |-> "tick", t0 |-> now, pre |-> Pre, cmd |-> mb.d,
                    err |-> inp.err, rfail |-> inp.rfail, delfail |-> FALSE,
                    fired |-> r.fired, safed |-> r.safed, saved |-> r.saved,
                    edge |-> r.edge, done |-> ~r.exc]
  /\ now' = now + loop_ms
  /\ applied' = NewApplied(mb.d, FALSE)
  /\ mb' = [mb EXCEPT !.d = NoCmd]
  /\ UNCHANGED <<shutdown, batch_size, hmi, cmd_seq, edges, run, calls,
                 tmp_file, saving, polled>>

MbStep == \E inp \in {ZeroIn, [ZeroIn EXCEPT !.obj = 1]} : MbRest(inp)

MbNext == Start \/ MbRead \/ MbStep \/ Write \/ HmiDump

SpecMailbox == Init /\ [][MbNext]_vars

(* ---------------- SpecLive: an armed run that goes on for ever ----------- *)
(* The loop has no last iteration, so the clock is read relative to the    *)
(* iteration that is about to run: after the sleep of loop_ms every stored *)
(* time is moved back by loop_ms and now stays where it is.  The code only *)
(* compares differences with the clock: t - obj_last_edge_ms with          *)
(* debounce_obj, t - hb_ms with 500, t with the expiry of a pulse.  A      *)
(* stored time that is already older than the comparison can tell is kept  *)
(* at that age.                                                            *)
Later(a, b) == IF a >= b THEN a ELSE b

Rebase(r) ==
  [r EXCEPT !.obj_last_edge_ms = Later(@ - loop_ms, now - debounce_obj),
            !.hb_ms = Later(@ - loop_ms, now - HB_PERIOD - loop_ms),
            !.pu = [k \in DOMAIN @ |-> @[k] - loop_ms]]

LiveTick(inp) ==
  /\ pc = "loop"
  /\ ~shutdown
  /\ \E rc \in {read_cmd(cmd_file, FALSE)} :
     \E s1 \in {heartbeat(Cur, now, {})} :
     \E s2 \in {service_pulses(s1, now, {})} :
     \E s3 \in {handle_cmd(s2, rc.d, now, {})} :
     \E s4 \in {evaluate(s3, inp, now, {}, batch_size)} :
     \E r \in {Rebase(s4)} :
        /\ Commit(r)
        /\ pc' = IF r.exc THEN "dead" ELSE "loop"
        /\ cmd_file' = rc.file
        /\ applied' = NewApplied(rc.d, FALSE)
        /\ tally' = NewTally(r, rc.d)
        /\ last' = [kind |-> "tick", t0 |-> now, pre |-> Pre, cmd |-> rc.d,
                    err |-> inp.err, rfail |-> inp.rfail, delfail |-> FALSE,
                    fired |-> r.fired, safed |-> r.safed, saved |-> r.saved,
                    edge |-> r.edge, done |-> ~r.exc]
  /\ UNCHANGED <<shutdown, batch_size, now, hmi, cmd_seq, edges, run, calls,
                 tmp_file, saving, polled, mb>>

InitLive == \E n \in 1..MaxLiveTarget, b \in BatchSizes : InitArmed(n, b)

LiveStep == \E inp \in RunInputs : LiveTick(inp)

(* the environment of the run: the robot lowers and raises object_signal   *)
(* while the controller is in PICK_IN and raises next_signal while it is   *)
(* in AFTER_MARK                                                           *)
LowTick ==
  mode = "PICK_IN" /\ \E inp \in {x \in RunInputs : x.obj = 0} : LiveTick(inp)
EdgeTick ==
  /\ mode = "PICK_IN"
  /\ \E inp \in {x \in RunInputs : x.obj = 1} : LiveTick(inp)
  /\ last'.edge
NextTick == mode = "AFTER_MARK" /\ LiveTick([ZeroIn EXCEPT !.next = 1])

SpecLive ==
  /\ InitLive /\ [][LiveStep]_vars
  /\ WF_vars(LiveStep)
  /\ WF_vars(LowTick) /\ SF_vars(EdgeTick) /\ WF_vars(NextTick)

(* ======================= properties ===================================== *)
TickDone == last.kind = "tick" /\ last.done
AllOutputsLow == \A k \in out_map : k \in DOMAIN rel_state /\ ~rel_state[k]
NoPending == DOMAIN pulse_until = {}
ResetOnly == Cmd(TRUE, FALSE, FALSE, IntT(0))
ResetApplied ==
  last.cmd.kind = "cmd" /\ last.cmd.reset /\ ~last.cmd.calib /\ ~last.cmd.auto

(* C1 (as claimed): once a target is armed, 0 <= batch_count <= batch_size *)
(* and 0 <= total_done <= target_n in every reachable state.  Restarting   *)
(* a finished run with the start button does not zero total_done, and the  *)
(* next object is counted beyond target_n.                                 *)
CxC1 ==
  target_set => /\ 0 <= batch_count /\ batch_count <= batch_size
                /\ 0 <= total_done /\ total_done <= target_n

(* C2: any two accepted edges of edge_obj are at least debounce_obj apart: *)
(* the two most recent accepted edges are, and sample times only grow.     *)
ThC2 == edges.n >= 2 => edges.last - edges.prev >= debounce_obj
WitC2 == edges.n >= 2 /\ edges.last - edges.prev = debounce_obj

(* C3 (as claimed): a 0->1 transition of object_signal whose high level is *)
(* held longer than the debounce window has produced exactly one accepted  *)
(* edge.  A rising sample inside the window of the previous accepted edge  *)
(* is rejected and the rest of that pulse is never looked at again.        *)
CxC3 == (run.high /\ now - run.rise > debounce_obj) => run.counted = 1

(* C4: an iteration that reads all inputs and finds r_error = 1 ends with  *)
(* mode ERROR, every configured output cached low and no pulse pending,    *)
(* whatever the mode, the command applied and the pulses pending were.     *)
ThC4 ==
  (TickDone /\ ~last.rfail /\ last.err = 1)
    => (mode = "ERROR" /\ AllOutputsLow /\ NoPending)
WitC4 ==
  /\ TickDone /\ last.err = 1 /\ mode = "ERROR"
  /\ last.pre.mode = "MARKING" /\ last.pre.pend # {}

(* C5 (as claimed): mode leaves ERROR only in an iteration that applies a  *)
(* command with reset = true.  A calib command, or an auto command with a  *)
(* positive target, takes the machine out of ERROR as well.                *)
CxC5 ==
  [][(mode = "ERROR" /\ mode' # "ERROR")
       => (last'.cmd.kind = "cmd" /\ last'.cmd.reset)]_vars

(* C6: a command with only reset = true gives mode IDLE, both counters 0,  *)
(* target_set false, every output low and no pulse pending: right after    *)
(* handle_cmd, from every reachable state of the loop, and at the end of   *)
(* the iteration that applied it unless the error input was asserted.      *)
ThC6 ==
  /\ pc = "loop" =>
       \A r \in {handle_cmd(Cur, ResetOnly, now, {})} :
         /\ r.mode = "IDLE" /\ r.total_done = 0 /\ r.batch_count = 0
         /\ ~r.target_set /\ DOMAIN r.pu = {}
         /\ \A k \in out_map : k \in DOMAIN r.rel /\ ~r.rel[k]
  /\ (TickDone /\ ResetApplied /\ last.err = 0) =>
       /\ mode = "IDLE" /\ total_done = 0 /\ batch_count = 0
       /\ ~target_set /\ AllOutputsLow /\ NoPending
WitC6 ==
  /\ TickDone /\ ResetApplied /\ last.err = 0 /\ ~last.rfail
  /\ last.pre.mode = "PICK_IN" /\ last.pre.batch_count >= 1
  /\ last.pre.pend # {} /\ mode = "IDLE"

(* C7: in a run armed with target_n and batch_size, without commands,      *)
(* errors or failures: a PICK_IN iteration that fills the batch below the  *)
(* target pulses over and enters MARKING with batch_count = batch_size;    *)
(* one that reaches the target has a batch open, pulses over and enters    *)
(* MARKING, not IDLE; MARKING goes to AFTER_MARK; AFTER_MARK waits for     *)
(* next_signal = 1 and then returns to PICK_IN with batch_count = 0 below  *)
(* the target, and pulses count_ok and enters IDLE at the target.  When    *)
(* the run ends, over was pulsed at every multiple of batch_size and at    *)
(* target_n (10, 20 and 25 for 25 and 10), and count_ok exactly once.      *)
OverFired == "over_signal" \in last'.fired
OkFired == "count_ok" \in last'.fired
OverPoints ==
  {k \in 1..target_n : k = target_n \/ k % batch_size = 0}

C7AfterMark(inp) ==
  IF inp.next = 1
  THEN IF total_done < target_n
       THEN mode' = "PICK_IN" /\ batch_count' = 0 /\ last'.fired = {}
       ELSE mode' = "IDLE" /\ last'.fired = {"count_ok"}
  ELSE mode' = "AFTER_MARK" /\ batch_count' = batch_count
         /\ last'.fired = {}

C7Step ==
  /\ (mode = "PICK_IN" /\ batch_count' >= batch_size
        /\ total_done' < target_n)
       => (mode' = "MARKING" /\ OverFired /\ batch_count' = batch_size)
  /\ (mode = "PICK_IN" /\ total_done' >= target_n)
       => (batch_count' # 0 /\ mode' = "MARKING" /\ OverFired /\ ~OkFired
           /\ total_done' = target_n)
  /\ OverFired => (mode = "PICK_IN" /\ mode' = "MARKING")
  /\ OkFired => (mode = "AFTER_MARK" /\ mode' = "IDLE")
  /\ mode = "MARKING"
       => (mode' = "AFTER_MARK" /\ last'.fired = {}
           /\ batch_count' = batch_count /\ total_done' = total_done)
  /\ mode = "AFTER_MARK"
       => \A inp \in RunInputs :
            Tick(inp, {}, FALSE, MaxRunTime) => C7AfterMark(inp)
  /\ (mode # "IDLE" /\ mode' = "IDLE")
       => (tally'.ok = 1 /\ total_done' = target_n
           /\ tally'.overAt = OverPoints)

ThC7 == [][C7Step]_vars
WitC7 ==
  /\ mode = "IDLE" /\ target_n = 25 /\ batch_size = 10 /\ total_done = 25
  /\ tally.ok = 1 /\ tally.overAt = {10, 20, 25}

(* C8 (as claimed): an output with a pending pulse is driven low only by   *)
(* a pulse service at or after its expiry t+d, and by the first such       *)
(* service.  A reset command or an asserted error input drives it low      *)
(* before the expiry.                                                      *)
C8Serviced ==
  \A k \in DOMAIN pulse_until :
    (now' # now /\ last'.t0 >= pulse_until[k] /\ k \notin last'.fired)
      => (k \notin DOMAIN pulse_until' /\ ~rel_state'[k])
C8Pending ==
  \A k \in DOMAIN pulse_until' : rel_state'[k] /\ pulse_until'[k] > last'.t0

CxC8 ==
  [][/\ \A k \in DOMAIN pulse_until :
          (rel_state[k] /\ ~rel_state'[k]) => last'.t0 >= pulse_until[k]
     /\ C8Serviced
     /\ C8Pending]_vars

(* C8 (amended): an output with a pending pulse is driven low only by a    *)
(* pulse service at or after its expiry or by safe_outputs (a reset        *)
(* command, an asserted error input); a pulse fired again before it        *)
(* expired only moves the expiry later; the first service at or after the  *)
(* expiry drives the output low and removes the entry, so that after every *)
(* iteration each pending output is high and expires later than that       *)
(* iteration's service.                                                    *)
ThC8 ==
  [][/\ \A k \in DOMAIN pulse_until :
          (rel_state[k] /\ ~rel_state'[k])
            => (last'.t0 >= pulse_until[k] \/ last'.safed)
     /\ \A k \in DOMAIN pulse_until \cap DOMAIN pulse_until' :
          pulse_until'[k] >= pulse_until[k]
     /\ C8Serviced
     /\ C8Pending]_vars
WitC8 ==
  /\ TickDone /\ ~last.safed
  /\ \E k \in last.pre.pend : k \notin DOMAIN pulse_until /\ ~rel_state[k]
  /\ \E k \in last.pre.pend : k \in DOMAIN pulse_until /\ rel_state[k]

(* C9 (as claimed): two calls of OutputsLatch.set in a row with the same   *)
(* arguments, the first not failing, issue exactly one physical write      *)
(* between them, and the second writes nothing and leaves the cache alone. *)
(* When the cache already holds the value neither call writes.             *)
CxC9 ==
  (calls.n >= 2 /\ calls.same /\ ~calls.praised)
    => (calls.pwrote + calls.wrote = 1 /\ calls.wrote = 0 /\ calls.kept)

(* C9 (amended): of two calls in a row with the same arguments, the first  *)
(* issues one physical write if the cache did not hold the value (or the   *)
(* address was never written) and none if it did; if that write succeeds   *)
(* or was not needed the second call writes nothing, raises nothing and    *)
(* leaves the cache unchanged; if it fails the second call tries it again. *)
ThC9 ==
  (calls.n >= 2 /\ calls.same)
    => /\ calls.pwrote = (IF calls.pheld THEN 0 ELSE 1)
       /\ IF calls.praised THEN calls.wrote = 1
          ELSE calls.wrote = 0 /\ calls.kept /\ ~calls.raised
WitC9 ==
  /\ calls.n = 2 /\ calls.same /\ ~calls.praised /\ ~calls.pheld
  /\ calls.pwrote = 1 /\ calls.wrote = 0 /\ calls.kept

(* C10 (as claimed): an iteration that finds a command file, parsable or   *)
(* not, leaves no file behind when the deletion does not fail.  read_cmd   *)
(* leaves an unparsable file where it is.                                  *)
CxC10 ==
  [][(now' # now /\ cmd_file.kind # "none" /\ ~last'.delfail)
       => cmd_file'.kind = "none"]_vars

(* C10 (amended): an iteration that finds a parsable command file applies  *)
(* its record and deletes the file (it stays only if the deletion fails);  *)
(* one that finds an unparsable file applies nothing and leaves the file   *)
(* in place; a record is applied a second time only if deleting it failed. *)
ThC10 ==
  [][now' # now =>
       /\ cmd_file.kind = "cmd" =>
            /\ last'.cmd.kind = "cmd" /\ last'.cmd.ts = cmd_file.ts
            /\ cmd_file'.kind = (IF last'.delfail THEN "cmd" ELSE "none")
       /\ cmd_file.kind = "bad" =>
            (cmd_file'.kind = "bad" /\ last'.cmd.kind = "none")
       /\ cmd_file.kind = "none" =>
            (cmd_file'.kind = "none" /\ last'.cmd.kind = "none")
       /\ applied'.again \subseteq applied'.kept]_vars
WitC10 ==
  /\ TickDone /\ last.cmd.kind = "cmd" /\ ~last.delfail
  /\ cmd_file.kind = "none" /\ last.cmd.ts \in applied.once
  /\ applied.again # {}

(* C11 (as claimed): every completed iteration of the loop, in every mode  *)
(* and for every input, has written the status file.  An AFTER_MARK        *)
(* iteration that reads next_signal = 0 sleeps without calling             *)
(* save_runtime.                                                           *)
CxC11 == TickDone => last.saved

(* C12 (as claimed): an iteration that applies a command with only auto    *)
(* set whose target is zero, negative, missing or not an integer changes   *)
(* nothing by it and completes.  int() raises on a target it cannot parse, *)
(* nothing catches it and the loop ends.                                   *)
AutoOnly(c) == c.kind = "cmd" /\ c.auto /\ ~c.reset /\ ~c.calib
CxC12 ==
  (last.kind = "tick" /\ AutoOnly(last.cmd) /\ cmd_target(last.cmd) <= 0)
    => (last.done /\ pc = "loop")

(* C13 (as claimed): an iteration in which a read fails writes a status    *)
(* with a non-empty error, leaves mode and batch_count as the command      *)
(* handling left them and completes; after an iteration whose reads all    *)
(* succeed the status file no longer carries the read-error text.  An      *)
(* AFTER_MARK iteration reading next_signal = 0 writes no status, and the  *)
(* read error of the iteration before it stays in the file.                *)
CxC13 ==
  /\ (TickDone /\ last.rfail) =>
       /\ last.saved /\ state_file.error # "" /\ pc = "loop"
       /\ last.cmd.kind = "none" =>
            (mode = last.pre.mode /\ batch_count = last.pre.batch_count)
  /\ (TickDone /\ ~last.rfail) => state_file.error # "IO read error"

(* C14 (as claimed): once the loop has started no runtime fault ends it;   *)
(* it ends only when the shutdown flag is set.  A backend write that fails *)
(* (heartbeat toggle, pulse firing, pulse service, forcing outputs low)    *)
(* raises out of OutputsLatch.set and nothing in the loop catches it.      *)
CxC14 ==
  /\ last.kind = "tick" => pc # "dead"
  /\ pc = "stopped" => shutdown

(* C15: a record with several flags is applied as reset, then calib, then  *)
(* auto, for all eight combinations of the flags and every target int()    *)
(* accepts, from every reachable state of the loop: an auto with a         *)
(* positive target T wins the mode (STARTING, target_n = T, counters 0,    *)
(* target_set true); otherwise reset or calib leave IDLE; reset zeroes the *)
(* counters, clears target_set, drives every output low and empties the    *)
(* pending table before calib raises r_calib_req and makes it pending.     *)
(* The same is found at the end of an iteration that applied the record    *)
(* and then failed to read its inputs.                                     *)
Armed(c) == c.auto /\ cmd_target(c) > 0
C15Rel(c) ==
  IF c.reset THEN [AllLow EXCEPT !["r_calib_req"] = c.calib]
  ELSE IF c.calib THEN Put(rel_state, "r_calib_req", TRUE)
  ELSE rel_state
C15Pend(c) ==
  (IF c.reset THEN {} ELSE DOMAIN pulse_until)
    \cup (IF c.calib THEN {"r_calib_req"} ELSE {})
C15Applied(c, r) ==
  /\ ~r.exc
  /\ r.mode = IF Armed(c) THEN "STARTING"
              ELSE IF c.reset \/ c.calib THEN "IDLE" ELSE mode
  /\ r.target_set = IF Armed(c) THEN TRUE
                    ELSE IF c.reset THEN FALSE ELSE target_set
  /\ r.target_n = IF Armed(c) THEN cmd_target(c) ELSE target_n
  /\ r.total_done = IF Armed(c) \/ c.reset THEN 0 ELSE total_done
  /\ r.batch_count = IF Armed(c) \/ c.reset THEN 0 ELSE batch_count
  /\ r.rel = C15Rel(c)
  /\ DOMAIN r.pu = C15Pend(c)
  /\ c.calib => r.pu["r_calib_req"] = now + pulse_ms
C15End ==
  /\ (last.cmd.reset /\ Armed(last.cmd)) =>
       /\ mode = "STARTING" /\ target_n = cmd_target(last.cmd)
       /\ total_done = 0 /\ batch_count = 0 /\ target_set
       /\ \A k \in out_map \ {"r_calib_req"} : ~rel_state[k]
  /\ (last.cmd.reset /\ last.cmd.calib /\ ~Armed(last.cmd)) =>
       /\ mode = "IDLE" /\ total_done = 0 /\ batch_count = 0
       /\ ~target_set /\ rel_state["r_calib_req"]
       /\ DOMAIN pulse_until = {"r_calib_req"}
  /\ (last.cmd.reset /\ ~last.cmd.calib) => (AllOutputsLow /\ NoPending)
  /\ (last.cmd.calib /\ Armed(last.cmd)) => mode = "STARTING"
ThC15 ==
  /\ pc = "loop" =>
       \A c \in {x \in AnyCommands : x.target.k # "str"} :
         \A r \in {handle_cmd(Cur, c, now, {})} : C15Applied(c, r)
  /\ (TickDone /\ last.rfail /\ last.cmd.kind = "cmd") => C15End
WitC15 ==
  /\ TickDone /\ last.rfail /\ last.cmd.kind = "cmd"
  /\ last.cmd.reset /\ ~last.cmd.calib /\ Armed(last.cmd)
  /\ last.pre.mode = "PICK_IN" /\ last.pre.pend # {}
  /\ mode = "STARTING" /\ target_set /\ AllOutputsLow /\ NoPending

(* C16: whenever state() of hmi.py reads the status file, before, between  *)
(* or after the steps of save_state, it finds no file (and answers with    *)
(* its defaults) or a whole record, never a prefix of one; the record it   *)
(* answers with has a mode among the six and total_done, batch_count and   *)
(* target_n that are non-negative integers.                                *)
C16Complete(p) ==
  /\ p.kind \in {"default", "record"}
  /\ p.rec.mode \in Modes
  /\ p.rec.total_done \in Nat
  /\ p.rec.batch_count \in Nat
  /\ p.rec.target_n \in Nat
ThC16 ==
  /\ C16Complete(state_read(state_file))
  /\ polled.kind # "none" => C16Complete(polled)
WitC16 ==
  /\ polled.kind = "record" /\ polled.at = "save_replace"
  /\ tmp_file # NoStatus /\ tmp_file # polled.rec
  /\ polled.rec.mode = "PICK_IN" /\ saving.mode = "MARKING"

(* C17: an iteration that evaluates PICK_IN first counts the object edge,  *)
(* if edge_obj accepts one, whichever pulse follows; it fires at most one  *)
(* of count_ok, over_signal and continue_signal and nothing else; it fires *)
(* continue_signal only if, after counting, total_done < target_n,         *)
(* batch_count < batch_size and ready_signal is 1, and then mode stays     *)
(* PICK_IN.                                                                *)
C17Pulses == {"count_ok", "over_signal", "continue_signal"}
C17Tick(inp) ==
  /\ last'.fired \subseteq C17Pulses
  /\ Cardinality(last'.fired) <= 1
  /\ last'.edge = edge_hit(Cur, inp.obj, now)
  /\ total_done' = total_done + (IF last'.edge THEN 1 ELSE 0)
  /\ batch_count' = batch_count + (IF last'.edge THEN 1 ELSE 0)
  /\ "continue_signal" \in last'.fired =>
       /\ total_done' < target_n /\ batch_count' < batch_size
       /\ inp.ready = 1 /\ mode' = "PICK_IN"
ThC17 ==
  [][mode = "PICK_IN" =>
       \A inp \in RunInputs \cup {[ZeroIn EXCEPT !.btn = 1]} :
         Tick(inp, {}, FALSE, MaxRestartTime) => C17Tick(inp)]_vars
WitC17 ==
  /\ TickDone /\ last.pre.mode = "PICK_IN" /\ last.edge
  /\ last.fired = {"continue_signal"} /\ mode = "PICK_IN"
  /\ batch_count = 1 /\ batch_size = 2 /\ total_done = 1 /\ target_n = 2

(* C18: in every reachable state a mode among STARTING, PICK_IN, MARKING   *)
(* and AFTER_MARK comes with target_set = true, for every sequence of      *)
(* records in the command file (any flags, any target) and of inputs.      *)
Running == {"STARTING", "PICK_IN", "MARKING", "AFTER_MARK"}
ThC18 == mode \in Running => target_set
WitC18 ==
  /\ TickDone /\ last.cmd.kind = "cmd" /\ last.cmd.reset
  /\ ~Armed(last.cmd) /\ last.pre.mode \in Running
  /\ mode = "IDLE" /\ ~target_set /\ applied.once = {1, 2}

(* C19: after the two lines before the loop and after every completed      *)
(* iteration, with every backend write succeeding, an output other than    *)
(* pi_alive is cached high exactly if it has an entry in the pending-pulse *)
(* table, and pi_alive never has an entry.                                 *)
C19High == {k \in DOMAIN rel_state : rel_state[k]}
ThC19 ==
  (last.kind \in {"start", "tick"} /\ last.done)
    => /\ C19High \ {"pi_alive"} = DOMAIN pulse_until
       /\ DOMAIN pulse_until \subseteq out_map \ {"pi_alive"}
WitC19 ==
  /\ TickDone /\ "pi_alive" \in C19High
  /\ DOMAIN pulse_until = {"start_signal", "r_calib_req"}
  /\ C19High = {"pi_alive", "start_signal", "r_calib_req"}

(* C20 (as claimed): with write_cmd running between the read and the       *)
(* delete of read_cmd, every record written is applied by the controller,  *)
(* overwritten by a later write, or still in the file.  A record written   *)
(* after read_text and before os.remove is unlinked without being read.    *)
CxC20 ==
  (hmi.kind = "none" /\ pc = "loop")
    => \A ts \in 1..cmd_seq :
         \/ ts \in applied.once
         \/ ts \in mb.over
         \/ (cmd_file.kind = "cmd" /\ cmd_file.ts = ts)

(* C21: after an iteration has applied an auto command with a target       *)
(* N > 0, with no further command, no error input, no failure and an       *)
(* environment that keeps lowering and raising object_signal in PICK_IN    *)
(* and raises next_signal in AFTER_MARK, the controller eventually is in   *)
(* IDLE with total_done >= N, having pulsed count_ok, and an over pulse    *)
(* was fired when the last object of the run was counted, so that every    *)
(* object counted was followed by one.                                     *)
C21Applied == TickDone /\ last.cmd.kind = "cmd" /\ Armed(last.cmd)
C21Done ==
  /\ mode = "IDLE" /\ target_set /\ total_done >= target_n
  /\ tally.ok >= 1 /\ total_done \in tally.overAt
ThC21 == C21Applied ~> C21Done
WitC21 ==
  /\ C21Done /\ last.fired = {"count_ok"} /\ last.pre.mode = "AFTER_MARK"
  /\ target_n = 3 /\ batch_size = 2 /\ tally.overAt = {2, 3}

====
